---- MODULE Spec2Model ----
(***************************************************************************)
(* Model of the JSON table extractors load_json_to_excel.py and            *)
(* json_to_table.py.                                                       *)
(*                                                                         *)
(* A string is a sequence of one-character strings.  A parsed JSON         *)
(* document is an ordered tree kept in three parallel sequences (kind,     *)
(* par, key) indexed by node number; nodes are numbered in document        *)
(* pre-order, so the children of a node, taken in increasing number, are   *)
(* its fields (or elements) in insertion order.                            *)
(***************************************************************************)
EXTENDS Integers, Sequences, FiniteSets, TLC

VARIABLES
    kind,          \* kind[n]: "s" scalar, "a" array, "o" object
    par,           \* par[n]: parent node, 0 for the root
    key,           \* key[n]: field name of n in its parent object
    pc,            \* "build" (document being read), then "excel", "csv", "exit",
                   \* "table" (a script has run), or "names" (calls on their own)
    include_empty, \* args.include_empty of the run
    sheet_naming,  \* args.sheet_naming of the run: "last" or "full"
    tables,        \* load_json_to_excel: the dict 'tables', in insertion order
    writes,        \* load_json_to_excel: every assignment tables[path] = rows made
    base_names,    \* load_json_to_excel: the base name chosen for each table
    sheet_names,   \* load_json_to_excel: the sheet/file name given to each table
    frames,        \* load_json_to_excel: rows_to_dataframe(rows) of each table
    sheets,        \* json_to_table: the dict 'sheets', in insertion order
    used_names,    \* json_to_table: the set 'used_names'
    csv_frames,    \* json_to_table: rows_to_dataframe(rows) of each sheet written
    prog,          \* name calls: which script's uniquify is called
    used,          \* name calls: the set 'used' after the last call
    prev_used,     \* name calls: the set 'used' before the last call
    arg,           \* name calls: the raw name passed to the last call
    ret,           \* name calls: the name returned by the last call
    calls          \* name calls: number of calls made

docvars   == <<kind, par, key>>
excelvars == <<include_empty, sheet_naming, tables, writes, base_names, sheet_names, frames>>
tablevars == <<sheets, used_names, csv_frames>>
namevars  == <<prog, used, prev_used, arg, ret, calls>>
vars      == <<kind, par, key, pc, include_empty, sheet_naming, tables, writes,
               base_names, sheet_names, frames, sheets, used_names, csv_frames,
               prog, used, prev_used, arg, ret, calls>>

----
\* Bounds of the model

MaxNodes == 7
MaxDepth == 4
MaxKids == 2
MaxCalls == 10

----
\* Strings

Lower == {"a","b","c","d","e","f","g","h","i","j","k","l","m",
          "n","o","p","q","r","s","t","u","v","w","x","y","z"}
Upper == {"A","B","C","D","E","F","G","H","I","J","K","L","M",
          "N","O","P","Q","R","S","T","U","V","W","X","Y","Z"}
DigitChars == <<"0","1","2","3","4","5","6","7","8","9">>
Digits == {DigitChars[i] : i \in 1..10}
Whitespace == {" ", "\t", "\n"}

S_root    == <<"r","o","o","t">>
S_Result  == <<"R","e","s","u","l","t">>
S_dotResult == <<".">> \o S_Result
S_Sheet   == <<"S","h","e","e","t">>
S_sheet   == <<"s","h","e","e","t">>
S_value   == <<"v","a","l","u","e">>
S_summary == <<"_","_","s","u","m","m","a","r","y","_","_">>
S_data    == <<"d","a","t","a">>

\* str(i) for i >= 0
RECURSIVE Dec(_)
Dec(i) == IF i < 10 THEN <<DigitChars[i + 1]>>
          ELSE Dec(i \div 10) \o <<DigitChars[(i % 10) + 1]>>

\* s[:n]
Take(s, n) == SubSeq(s, 1, IF n < 0 THEN 0 ELSE IF n > Len(s) THEN Len(s) ELSE n)

\* sub in s
Contains(s, sub) ==
    \E i \in 1..(Len(s) - Len(sub) + 1) : SubSeq(s, i, i + Len(sub) - 1) = sub

\* s.strip()
Strip(s) ==
    LET keep == {i \in 1..Len(s) : s[i] \notin Whitespace}
    IN IF keep = {} THEN <<>>
       ELSE LET lo == CHOOSE i \in keep : \A j \in keep : i <= j
                hi == CHOOSE i \in keep : \A j \in keep : j <= i
            IN SubSeq(s, lo, hi)

----
\* The document

Nodes == 1..Len(kind)
Root == 1

isinstance_list(n) == kind[n] = "a"
isinstance_dict(n) == kind[n] = "o"

\* the elements of an array, or the field values of an object, in order
Kids(n) == SelectSeq([i \in 1..Len(kind) |-> i], LAMBDA c : par[c] = n)

\* whether p is n or an ancestor of n
RECURSIVE OnPathToRoot(_, _)
OnPathToRoot(p, n) == IF n = 0 THEN FALSE
                      ELSE IF n = p THEN TRUE
                      ELSE OnPathToRoot(p, par[n])

----
\* load_json_to_excel.py

MaxSheetLen == 31
INVALID_SHEET_CHARS == {":", "\\", "/", "?", "*", "[", "]"}

\* re.sub(pattern, "_", s) for a pattern that is one character class
SubClass(s, bad) == [i \in 1..Len(s) |-> IF s[i] \in bad THEN "_" ELSE s[i]]

sanitize_sheet_name(name) ==
    LET n1 == SubClass(Strip(name), INVALID_SHEET_CHARS)
        n2 == IF n1 = <<>> THEN S_Sheet ELSE n1
    IN IF Len(n2) > MaxSheetLen THEN Take(n2, MaxSheetLen) ELSE n2

\* uniquify_loop with the suffix appended to the whole base (no truncation)
RECURSIVE uniquify_loop_untruncated(_, _, _, _)
uniquify_loop_untruncated(name, base, i, usedset) ==
    IF name \in usedset
    THEN uniquify_loop_untruncated(base \o <<"_">> \o Dec(i), base, i + 1, usedset)
    ELSE name

\* the while loop of uniquify: the first free name among name, base_2, base_3, ...
RECURSIVE uniquify_loop(_, _, _, _)
uniquify_loop(name, base, i, usedset) ==
    IF name \in usedset
    THEN LET suffix == <<"_">> \o Dec(i)
         IN uniquify_loop(Take(base, MaxSheetLen - Len(suffix)) \o suffix, base, i + 1, usedset)
    ELSE name

\* uniquify(name, used): the name returned; the caller adds it to 'used'
uniquify(name, usedset) == uniquify_loop(name, name, 2, usedset)

is_array_of_dicts(x) ==
    /\ isinstance_list(x)
    /\ Len(Kids(x)) > 0
    /\ \A c \in {Kids(x)[i] : i \in 1..Len(Kids(x))} : isinstance_dict(c)

\* out[path] = rows on an insertion-ordered dict; the assignment is also logged
DictSet(out, path, src, rows) ==
    LET e == [path |-> path, src |-> src, rows |-> rows]
        hit == {i \in 1..Len(out.tables) : out.tables[i].path = path}
    IN [tables |-> IF hit = {} THEN Append(out.tables, e)
                   ELSE [i \in 1..Len(out.tables) |->
                            IF i \in hit THEN e ELSE out.tables[i]],
        writes |-> Append(out.writes, e)]

RECURSIVE collect_tables(_, _, _, _), collect_fields(_, _, _, _, _), collect_items(_, _, _, _, _)

\* lines 61-67: the loop over obj.items(), from the i-th field on
collect_fields(obj, i, path, out, inc_empty) ==
    IF i > Len(Kids(obj)) THEN out
    ELSE LET v == Kids(obj)[i]
             subpath == IF path # <<>> THEN path \o <<".">> \o key[v] ELSE key[v]
             out1 == IF is_array_of_dicts(v) THEN DictSet(out, subpath, v, Kids(v))
                     ELSE IF isinstance_dict(v) \/ isinstance_list(v)
                          THEN collect_tables(v, subpath, out, inc_empty)
                          ELSE out
         IN collect_fields(obj, i + 1, path, out1, inc_empty)

\* lines 73-78: the loop over enumerate(obj), from the i-th element on
collect_items(obj, i, path, out, inc_empty) ==
    IF i > Len(Kids(obj)) THEN out
    ELSE LET item == Kids(obj)[i]
             subpath == path \o <<"[">> \o Dec(i - 1) \o <<"]">>
             out1 == IF is_array_of_dicts(item) THEN DictSet(out, subpath, item, Kids(item))
                     ELSE IF isinstance_dict(item) \/ isinstance_list(item)
                          THEN collect_tables(item, subpath, out, inc_empty)
                          ELSE out
         IN collect_items(obj, i + 1, path, out1, inc_empty)

collect_tables(obj, path, out, inc_empty) ==
    IF is_array_of_dicts(obj) THEN DictSet(out, path, obj, Kids(obj))
    ELSE IF isinstance_dict(obj) THEN collect_fields(obj, 1, path, out, inc_empty)
    ELSE IF isinstance_list(obj)
         THEN IF Len(Kids(obj)) = 0 /\ inc_empty
              THEN DictSet(out, path, obj, <<>>)
              ELSE collect_items(obj, 1, path, out, inc_empty)
    ELSE out

\* the keys of the row objects, in order of first appearance
RECURSIVE RecordColumns(_, _, _)
RecordColumns(rows, i, cols) ==
    IF i > Len(rows) THEN cols
    ELSE LET ks == Kids(rows[i])
             new == SelectSeq(ks, LAMBDA c : \A j \in 1..Len(cols) : cols[j] # key[c])
         IN RecordColumns(rows, i + 1, cols \o [j \in 1..Len(new) |-> key[new[j]]])

\* the cell of a row object in a column: the field's value, or 0 (missing, NaN)
Cell(row, col) ==
    LET hit == {c \in Nodes : par[c] = row /\ key[c] = col}
    IN IF hit = {} THEN 0 ELSE CHOOSE c \in hit : TRUE

\* pd.DataFrame(rows) for a list of dicts
DataFrame(rows) ==
    LET cols == RecordColumns(rows, 1, <<>>)
    IN [how |-> "records", cols |-> cols,
        cells |-> [r \in 1..Len(rows) |-> [j \in 1..Len(cols) |-> Cell(rows[r], cols[j])]]]

\* rows_to_dataframe(rows) for a list 'rows'.  The result of pd.json_normalize on
\* mixed content is left open: only its tag is kept.
rows_to_dataframe(rows) ==
    IF Len(rows) = 0 THEN [how |-> "empty", cols |-> <<>>, cells |-> <<>>]
    ELSE IF \A i \in 1..Len(rows) : isinstance_dict(rows[i]) THEN DataFrame(rows)
    ELSE IF \A i \in 1..Len(rows) : ~(isinstance_dict(rows[i]) \/ isinstance_list(rows[i]))
         THEN [how |-> "value", cols |-> <<S_value>>,
               cells |-> [r \in 1..Len(rows) |-> <<rows[r]>>]]
    ELSE [how |-> "normalize", cols |-> <<>>, cells |-> <<>>]

\* s.replace(old, new), old non-empty
RECURSIVE Replace(_, _, _)
Replace(s, old, new) ==
    IF Len(s) < Len(old) THEN s
    ELSE IF SubSeq(s, 1, Len(old)) = old
         THEN new \o Replace(SubSeq(s, Len(old) + 1, Len(s)), old, new)
         ELSE <<s[1]>> \o Replace(SubSeq(s, 2, Len(s)), old, new)

PathSpecial == {".", "[", "]"}

\* the end of the maximal run of characters outside . [ ] that starts at i
RunEnd(s, i) ==
    CHOOSE j \in i..Len(s) :
        /\ \A k \in i..j : s[k] \notin PathSpecial
        /\ (j = Len(s) \/ s[j + 1] \in PathSpecial)

\* '$' after p characters: at the end, or before a final newline
AtEnd(s, p) == p = Len(s) \/ (p = Len(s) - 1 /\ s[Len(s)] = "\n")

\* (?:\[\d+\])?$ after the run that ends at j
TailMatches(s, j) ==
    \/ AtEnd(s, j)
    \/ /\ j + 1 <= Len(s) /\ s[j + 1] = "["
       /\ \E e \in (j + 3)..Len(s) :
            /\ s[e] = "]"
            /\ \A k \in (j + 2)..(e - 1) : s[k] \in Digits
            /\ AtEnd(s, e)

\* re.findall(r'([^\.\[\]]+)(?:\[\d+\])?$', raw_path): the start positions of a match
MatchStarts(s) ==
    {i \in 1..Len(s) : s[i] \notin PathSpecial /\ TailMatches(s, RunEnd(s, i))}

\* lines 215-222 (and 176-183): the base name of a table found at raw_path
base_name(raw_path, naming) ==
    IF naming = "last"
    THEN IF Contains(raw_path, S_dotResult) THEN S_Result
         ELSE LET m == MatchStarts(raw_path)
              IN IF m # {}
                 THEN LET i == CHOOSE a \in m : \A b \in m : a <= b
                      IN SubSeq(raw_path, i, RunEnd(raw_path, i))
                 ELSE raw_path
    ELSE Replace(raw_path, S_root \o <<".">>, S_root \o <<".">>)

\* short_name(raw_path) of the CSV branch
short_name(raw_path, naming, usedset) ==
    uniquify(sanitize_sheet_name(base_name(raw_path, naming)), usedset)

\* the loop over tables.items() that names every table, from the i-th on
RECURSIVE name_tables(_, _, _, _, _)
name_tables(tabs, i, naming, usedset, acc) ==
    IF i > Len(tabs) THEN acc
    ELSE LET b == base_name(tabs[i].path, naming)
             n == short_name(tabs[i].path, naming, usedset)
         IN name_tables(tabs, i + 1, naming, usedset \cup {n},
                        [bases |-> Append(acc.bases, b), names |-> Append(acc.names, n)])

\* lines 157-167: collect_tables and the fallbacks
extract_tables(inc_empty) ==
    LET out == collect_tables(Root, S_root, [tables |-> <<>>, writes |-> <<>>], inc_empty)
    IN IF out.tables # <<>> THEN out
       ELSE IF isinstance_list(Root) THEN DictSet(out, S_root, Root, Kids(Root))
       ELSE IF isinstance_dict(Root) THEN DictSet(out, S_root, 0, <<Root>>)
       ELSE out

----
\* json_to_table.py

MaxNameLen == 64
SchemaSample == 500
NAME_CHARS == Lower \cup Upper \cup Digits \cup {"_", ".", "+", " ", "-"}

sanitize_name(name) ==
    LET n1 == IF Strip(name) = <<>> THEN S_sheet ELSE Strip(name)
        n2 == SubClass(n1, {n1[i] : i \in 1..Len(n1)} \ NAME_CHARS)
    IN IF Len(n2) > MaxNameLen THEN Take(n2, MaxNameLen) ELSE n2

\* the while loop of uniquify: the first free name among name, base_2, base_3, ...
RECURSIVE jt_uniquify_loop(_, _, _, _)
jt_uniquify_loop(name, base, i, usedset) ==
    IF name \in usedset
    THEN jt_uniquify_loop(base \o <<"_">> \o Dec(i), base, i + 1, usedset)
    ELSE name

\* uniquify(name, used): the name returned; the caller adds it to 'used'
jt_uniquify(name, usedset) == jt_uniquify_loop(name, name, 2, usedset)

\* union_keys(rows, sample): the keys of the first 'sample' rows
union_keys(rows) ==
    LET n == IF Len(rows) < SchemaSample THEN Len(rows) ELSE SchemaSample
    IN {key[c] : c \in {c \in Nodes : \E i \in 1..n : par[c] = rows[i]}}

jt_rows_to_dataframe(rows) ==
    IF Len(rows) = 0 THEN [how |-> "empty", cols |-> <<>>, cells |-> <<>>]
    ELSE DataFrame(rows)

\* name = uniquify(sanitize_name(base), used_names); sheets[name].extend(rows)
\* on the defaultdict(list) 'sheets'; srcs records the arrays the rows came from
Emit(acc, base, rows, srcs) ==
    LET name == jt_uniquify(sanitize_name(base), acc.used)
        hit == {i \in 1..Len(acc.sheets) : acc.sheets[i].name = name}
    IN [sheets |-> IF hit = {}
                   THEN Append(acc.sheets, [name |-> name, rows |-> rows, srcs |-> srcs])
                   ELSE [i \in 1..Len(acc.sheets) |->
                           IF i \in hit
                           THEN [name |-> name, rows |-> acc.sheets[i].rows \o rows,
                                 srcs |-> acc.sheets[i].srcs \o srcs]
                           ELSE acc.sheets[i]],
        used |-> acc.used \cup {name},
        name |-> name]

\* lines 85-92: schema_groups, in insertion order of the schemas
RECURSIVE schema_groups(_, _, _)
schema_groups(node, i, groups) ==
    IF i > Len(Kids(node)) THEN groups
    ELSE LET v == Kids(node)[i]
             schema == union_keys(Kids(v))
             hit == {g \in 1..Len(groups) : groups[g].schema = schema}
         IN IF is_array_of_dicts(v) /\ Cardinality(schema) # 0
            THEN schema_groups(node, i + 1,
                    IF hit = {} THEN Append(groups, [schema |-> schema, items |-> <<v>>])
                    ELSE [g \in 1..Len(groups) |->
                            IF g \in hit
                            THEN [schema |-> schema, items |-> Append(groups[g].items, v)]
                            ELSE groups[g]])
            ELSE schema_groups(node, i + 1, groups)

\* "+".join(keys of the arrays in items)
RECURSIVE JoinKeys(_, _)
JoinKeys(items, i) ==
    IF i > Len(items) THEN <<>>
    ELSE IF i = Len(items) THEN key[items[i]]
    ELSE key[items[i]] \o <<"+">> \o JoinKeys(items, i + 1)

\* the rows of all arrays in items, concatenated
RECURSIVE MergedRows(_, _)
MergedRows(items, i) ==
    IF i > Len(items) THEN <<>> ELSE Kids(items[i]) \o MergedRows(items, i + 1)

StartsWith(s, p) == Len(s) >= Len(p) /\ SubSeq(s, 1, Len(p)) = p

\* lines 96-105: the base name of a schema group
group_base_name(items, path) ==
    LET base == IF Len(items) = 1 THEN key[items[1]] ELSE JoinKeys(items, 1)
        parent_hint == IF path # <<>> THEN path[Len(path)] ELSE <<>>
    IN IF parent_hint # <<>> /\ ~StartsWith(base, parent_hint \o <<".">>)
       THEN parent_hint \o <<".">> \o base
       ELSE base

RECURSIVE traverse_and_collect(_, _, _), traverse_each(_, _, _, _),
          traverse_groups(_, _, _, _), traverse_others(_, _, _, _)

\* for item in nodes: traverse_and_collect(item, path, ...), from the i-th on
traverse_each(nodes, i, path, acc) ==
    IF i > Len(nodes) THEN acc
    ELSE traverse_each(nodes, i + 1, path, traverse_and_collect(nodes[i], path, acc))

\* lines 95-118: the loop over schema_groups.items(), from the g-th group on
traverse_groups(groups, g, path, acc) ==
    IF g > Len(groups) THEN acc
    ELSE LET items == groups[g].items
             merged_rows == MergedRows(items, 1)
             acc1 == Emit(acc, group_base_name(items, path), merged_rows, items)
             acc2 == traverse_each(merged_rows, 1, Append(path, acc1.name), acc1)
         IN traverse_groups(groups, g + 1, path, acc2)

\* lines 121-127: the loop over the other children, from the i-th field on
traverse_others(node, i, path, acc) ==
    IF i > Len(Kids(node)) THEN acc
    ELSE LET v == Kids(node)[i]
         IN traverse_others(node, i + 1, path,
              IF is_array_of_dicts(v) THEN acc
              ELSE IF isinstance_dict(v) \/ isinstance_list(v)
                   THEN traverse_and_collect(v, Append(path, key[v]), acc)
                   ELSE acc)

traverse_and_collect(node, path, acc) ==
    IF is_array_of_dicts(node)
    THEN LET base == IF path # <<>> THEN path[Len(path)] ELSE S_root
         IN traverse_each(Kids(node), 1, path, Emit(acc, base, Kids(node), <<node>>))
    ELSE IF isinstance_dict(node)
    THEN traverse_others(node, 1, path,
            traverse_groups(schema_groups(node, 1, <<>>), 1, path, acc))
    ELSE IF isinstance_list(node) THEN traverse_each(Kids(node), 1, path, acc)
    ELSE acc

\* lines 183-190: one frame per sheet with rows
written_frames(shs) ==
    LET keep == SelectSeq(shs, LAMBDA e : e.rows # <<>>)
    IN [i \in 1..Len(keep) |-> jt_rows_to_dataframe(keep[i].rows)]

----
\* Inputs

K_a   == <<"a">>
K_a_a == <<"a", ".", "a">>

\* the field names of one document all come from one of these sets
KeySets == {{K_a, K_a_a}, {S_summary}, {S_Result}}
Keys == UNION KeySets

Kinds == {"s", "a", "o"}

\* prefix followed by n times the character c
Pad(prefix, c, n) == prefix \o [i \in 1..n |-> c]

\* the raw names passed to sanitize and uniquify
RawNames ==
    { S_data,
      S_data \o <<"_", "2">>,
      <<" ", "[", "d", "]", "a", "/", "t", "a", "\t">>,
      <<>>,
      Pad(<<>>, "x", 31),
      Pad(<<>>, "y", 64) \o <<":", "z">> }

\* number of nodes from the root down to n
RECURSIVE Depth(_)
Depth(n) == IF n = 0 THEN 0 ELSE 1 + Depth(par[n])

----
\* The state machine

NoRun == /\ include_empty = FALSE /\ sheet_naming = "last"
         /\ tables = <<>> /\ writes = <<>> /\ base_names = <<>>
         /\ sheet_names = <<>> /\ frames = <<>>
         /\ sheets = <<>> /\ used_names = {} /\ csv_frames = <<>>

NoCalls == /\ prog = "none" /\ used = {} /\ prev_used = {}
           /\ arg = <<>> /\ ret = <<>> /\ calls = 0

\* json.load(f): the document starts as its root value
Init ==
    /\ kind \in {<<k>> : k \in Kinds}
    /\ par = <<0>>
    /\ key = << <<>> >>
    /\ pc = "build"
    /\ NoRun
    /\ NoCalls

\* the parsed document gets one more node, the next in pre-order
Grow(p, k, kd) ==
    /\ OnPathToRoot(p, Len(kind))
    /\ Depth(p) < MaxDepth
    /\ Len(Kids(p)) < MaxKids
    /\ kind' = Append(kind, kd)
    /\ par' = Append(par, p)
    /\ key' = Append(key, k)
    /\ UNCHANGED <<pc, excelvars, tablevars, namevars>>

\* one more element in the array p
AddItem(p, kd) ==
    /\ pc = "build"
    /\ Len(kind) < MaxNodes
    /\ kind[p] = "a"
    /\ Grow(p, <<>>, kd)

\* one more field k in the object p
AddField(p, k, kd) ==
    /\ pc = "build"
    /\ Len(kind) < MaxNodes
    /\ kind[p] = "o"
    /\ \A c \in Nodes : par[c] = p => key[c] # k
    /\ \E ks \in KeySets :
          k \in ks /\ \A c \in Nodes : (par[c] # 0 /\ kind[par[c]] = "o") => key[c] \in ks
    /\ Grow(p, k, kd)

\* load_json_to_excel.py main, Excel branch (args.csv false)
RunExcel(inc_empty, naming) ==
    /\ pc = "build"
    /\ \E out \in {extract_tables(inc_empty)} :
       \E named \in {name_tables(out.tables, 1, naming, {}, [bases |-> <<>>, names |-> <<>>])} :
          /\ include_empty' = inc_empty
          /\ sheet_naming' = naming
          /\ tables' = out.tables
          /\ writes' = out.writes
          /\ IF out.tables = <<>>
             THEN /\ pc' = "exit"
                  /\ UNCHANGED <<base_names, sheet_names, frames>>
             ELSE /\ pc' = "excel"
                  /\ base_names' = named.bases
                  /\ sheet_names' = named.names
                  /\ frames' = [i \in 1..Len(out.tables) |-> rows_to_dataframe(out.tables[i].rows)]
    /\ UNCHANGED <<docvars, tablevars, namevars>>

\* load_json_to_excel.py main, CSV branch (args.csv true)
RunCsv(inc_empty, naming) ==
    /\ pc = "build"
    /\ \E out \in {extract_tables(inc_empty)} :
       \E named \in {name_tables(out.tables, 1, naming, {}, [bases |-> <<>>, names |-> <<>>])} :
          /\ include_empty' = inc_empty
          /\ sheet_naming' = naming
          /\ tables' = out.tables
          /\ writes' = out.writes
          /\ IF out.tables = <<>>
             THEN /\ pc' = "exit"
                  /\ UNCHANGED <<base_names, sheet_names, frames>>
             ELSE /\ pc' = "csv"
                  /\ base_names' = IF Len(out.tables) = 1 THEN <<>> ELSE named.bases
                  /\ sheet_names' = IF Len(out.tables) = 1 THEN <<>> ELSE named.names
                  /\ frames' = [i \in 1..Len(out.tables) |-> rows_to_dataframe(out.tables[i].rows)]
    /\ UNCHANGED <<docvars, tablevars, namevars>>

\* json_to_table.py main
RunTable ==
    /\ pc = "build"
    /\ \E acc \in {traverse_and_collect(Root, <<>>, [sheets |-> <<>>, used |-> {}, name |-> <<>>])} :
          /\ sheets' = acc.sheets
          /\ used_names' = acc.used
          /\ csv_frames' = written_frames(acc.sheets)
    /\ pc' = "table"
    /\ UNCHANGED <<docvars, excelvars, namevars>>

Next ==
    \/ \E p \in Nodes, kd \in Kinds : AddItem(p, kd)
    \/ \E p \in Nodes, k \in Keys, kd \in Kinds : AddField(p, k, kd)
    \/ \E ie \in BOOLEAN, nm \in {"last", "full"} : RunExcel(ie, nm)
    \/ \E ie \in BOOLEAN, nm \in {"last", "full"} : RunCsv(ie, nm)
    \/ RunTable

Spec == Init /\ [][Next]_vars

----
\* Calls of sanitize and uniquify on their own

InitNames ==
    /\ kind = <<"s">> /\ par = <<0>> /\ key = << <<>> >>
    /\ pc = "names"
    /\ NoRun
    /\ prog \in {"load_json_to_excel", "json_to_table"}
    /\ used = {} /\ prev_used = {} /\ arg = <<>> /\ ret = <<>> /\ calls = 0

\* load_json_to_excel.py: uniquify(sanitize_sheet_name(x), used_names)
SheetCall(x) ==
    /\ pc = "names" /\ prog = "load_json_to_excel"
    /\ calls < MaxCalls
    /\ arg' = x
    /\ ret' = uniquify(sanitize_sheet_name(x), used)
    /\ used' = used \cup {ret'}
    /\ prev_used' = used
    /\ calls' = calls + 1
    /\ UNCHANGED <<docvars, pc, excelvars, tablevars, prog>>

\* json_to_table.py: uniquify(sanitize_name(base), used_names)
NameCall(x) ==
    /\ pc = "names" /\ prog = "json_to_table"
    /\ calls < MaxCalls
    /\ arg' = x
    /\ ret' = jt_uniquify(sanitize_name(x), used)
    /\ used' = used \cup {ret'}
    /\ prev_used' = used
    /\ calls' = calls + 1
    /\ UNCHANGED <<docvars, pc, excelvars, tablevars, prog>>

NextNames ==
    \/ \E x \in RawNames : SheetCall(x)
    \/ \E x \in RawNames : NameCall(x)

SpecNames == InitNames /\ [][NextNames]_vars

----
\* Vocabulary of the properties

Range(f) == {f[i] : i \in DOMAIN f}

ExcelDone == pc \in {"excel", "csv"}

\* the structural path of node n, written as collect_tables writes paths
RECURSIVE PathOf(_)
PathOf(n) ==
    IF n = Root THEN S_root
    ELSE IF kind[par[n]] = "o" THEN PathOf(par[n]) \o <<".">> \o key[n]
    ELSE LET sibs == Kids(par[n])
             pos == CHOOSE i \in 1..Len(sibs) : sibs[i] = n
         IN PathOf(par[n]) \o <<"[">> \o Dec(pos - 1) \o <<"]">>

\* the last named field step on the way from the root to n ("root" when there is
\* none); 0 stands for the list [data] that wraps the root
RECURSIVE LastField(_)
LastField(n) ==
    IF n = 0 \/ n = Root THEN S_root
    ELSE IF kind[par[n]] = "o" THEN key[n]
    ELSE LastField(par[n])

\* the columns of row object n once every object-valued field is expanded
RECURSIVE FlatKeys(_, _)
FlatKeys(n, prefix) ==
    LET fields == {c \in Nodes : par[c] = n}
    IN {prefix \o key[c] : c \in {c \in fields : kind[c] # "o"}}
       \cup UNION {FlatKeys(c, prefix \o key[c] \o <<".">>) : c \in {c \in fields : kind[c] = "o"}}

\* a frame built from the row objects 'rows' is the flattened union of their keys
FrameIsFlatUnion(frame, rows) ==
    /\ Range(frame.cols) = UNION {FlatKeys(rows[r], <<>>) : r \in 1..Len(rows)}
    /\ Len(frame.cells) = Len(rows)
    /\ \A r \in 1..Len(frame.cells) :
         /\ Len(frame.cells[r]) = Len(frame.cols)
         /\ \A j \in 1..Len(frame.cols) :
              frame.cells[r][j] # 0 => kind[frame.cells[r][j]] # "o"

AllDicts(rows) == rows # <<>> /\ \A r \in 1..Len(rows) : isinstance_dict(rows[r])

\* the suffix _i
Suffix(i) == <<"_">> \o Dec(i)

----
\* Properties

\* C1: when collect_tables returns, every non-empty array whose elements are all
\* objects, at any depth, is the value of exactly one registry entry, arrays inside
\* the rows of another registered table included.
C1_EveryArrayRegisteredOnce ==
    ExcelDone =>
        \A n \in Nodes :
            is_array_of_dicts(n) =>
                Cardinality({i \in 1..Len(tables) : tables[i].src = n}) = 1

\* C2: traverse_and_collect registers every non-empty array of objects as its own
\* entry whose rows are exactly that array's elements in order; none is skipped and
\* the rows of two arrays are never merged into one entry.
C2_EveryArrayOwnEntry ==
    pc = "table" =>
        \A n \in Nodes :
            is_array_of_dicts(n) =>
                Cardinality({i \in 1..Len(sheets) : sheets[i].rows = Kids(n)}) = 1

\* C3: the registry only grows: every entry once written is still in the registry,
\* under its key and with its own array, when the run ends.
C3_WrittenEntriesStay ==
    ExcelDone =>
        \A w \in Range(writes) :
            \E i \in 1..Len(tables) : tables[i].path = w.path /\ tables[i].src = w.src

\* C4: every name returned by json_to_table's uniquify(sanitize_name(base), used_names)
\* is new, non-empty, at most 64 characters long and made of allow-list characters.
C4_TableNamesValid ==
    (prog = "json_to_table" /\ calls > 0) =>
        /\ ret \notin prev_used
        /\ ret # <<>>
        /\ Len(ret) <= MaxNameLen
        /\ Range(ret) \subseteq NAME_CHARS

\* C5: every name returned by load_json_to_excel's uniquify(sanitize_sheet_name(x),
\* used_names) differs from all names returned earlier, is non-empty, has at most 31
\* characters, contains none of : \ / ? * [ ], and on a collision is the truncated
\* base followed by a complete suffix _2, _3, ...; 'data' twice gives 'data', 'data_2'.
C5_SheetNamesValid ==
    (prog = "load_json_to_excel" /\ calls > 0) =>
        LET base == sanitize_sheet_name(arg)
        IN /\ ret \notin prev_used
           /\ ret # <<>>
           /\ Len(ret) <= 31
           /\ Range(ret) \cap {":", "\\", "/", "?", "*", "[", "]"} = {}
           /\ base \notin prev_used => ret = base
           /\ base \in prev_used =>
                \E i \in 2..(calls + 1) :
                    /\ Len(Suffix(i)) <= Len(ret)
                    /\ SubSeq(ret, Len(ret) - Len(Suffix(i)) + 1, Len(ret)) = Suffix(i)
                    /\ SubSeq(ret, 1, Len(ret) - Len(Suffix(i))) = Take(base, 31 - Len(Suffix(i)))
           /\ (arg = S_data /\ prev_used = {}) => ret = S_data
           /\ (arg = S_data /\ prev_used = {S_data}) => ret = S_data \o <<"_", "2">>

\* C5 witness: a 31-character sheet name collided for the ninth time and came back
\* cut to 28 characters plus the suffix _10.
C5_Witness ==
    /\ prog = "load_json_to_excel"
    /\ Len(sanitize_sheet_name(arg)) = 31
    /\ sanitize_sheet_name(arg) \in prev_used
    /\ Len(ret) = 31
    /\ SubSeq(ret, 29, 31) = <<"_", "1", "0">>

\* C6: without include_empty collect_tables registers no zero-row table; with
\* include_empty every empty array of the document is registered as a zero-row table
\* under its path.
C6_EmptyArrayPolicy ==
    ExcelDone =>
        /\ ~include_empty =>
              \A w \in Range(collect_tables(Root, S_root, [tables |-> <<>>, writes |-> <<>>],
                                            include_empty).writes) : w.rows # <<>>
        /\ include_empty =>
              \A n \in Nodes :
                  (isinstance_list(n) /\ Kids(n) = <<>>) =>
                      \E i \in 1..Len(tables) :
                          /\ tables[i].src = n
                          /\ tables[i].rows = <<>>
                          /\ tables[i].path = PathOf(n)

\* C7: with sheet naming 'last' the base name of a table found at path P is the final
\* named field segment of P, whatever index segments follow it.
C7_LastSegmentBase ==
    (ExcelDone /\ sheet_naming = "last") =>
        \A i \in 1..Len(base_names) : base_names[i] = LastField(tables[i].src)

\* C8: a table built by rows_to_dataframe from rows that are all objects has as
\* columns the union of the rows' keys with every object-valued column replaced,
\* recursively, by dotted sub-columns; every row has a cell in every column and no
\* cell holds an object.
C8_FlattenedUnion ==
    /\ ExcelDone =>
          \A i \in 1..Len(frames) :
              AllDicts(tables[i].rows) => FrameIsFlatUnion(frames[i], tables[i].rows)
    /\ pc = "table" =>
          \A i \in 1..Len(csv_frames) :
              FrameIsFlatUnion(csv_frames[i], SelectSeq(sheets, LAMBDA e : e.rows # <<>>)[i].rows)

\* C9: json_to_table registers tables in document pre-order: an array reached
\* earlier in the depth-first walk over fields in insertion order is registered (and
\* named) before one reached later.
C9_PreOrderRegistration ==
    pc = "table" =>
        \A i, j \in 1..Len(sheets) :
            i < j => \A a \in Range(sheets[i].srcs), b \in Range(sheets[j].srcs) : a < b

\* C10: in the Excel branch no data sheet gets the name of the summary tab.
C10_SummaryNameFree ==
    pc = "excel" => \A i \in 1..Len(sheet_names) : sheet_names[i] # S_summary

====
